---- MODULE Spec2Model ----
(***************************************************************************)
(* A model of app.py, the TIF surplus dashboard: load_data (cached read    *)
(* and 2024 filter) and main (city-wide totals, district selection, top-5, *)
(* ward join and aggregation, ward selection, export), one pass of main    *)
(* per user interaction.                                                   *)
(*                                                                         *)
(* Text (identifiers, dates) is a sequence of one-character strings, so    *)
(* that slicing, parsing and padding are computed and not assumed.  An     *)
(* empty CSV field is read as a missing value, so the empty sequence is    *)
(* the missing value of a text column.  Amounts are integers.  A product   *)
(* amount * share is kept exactly, as its numerator over ShareDen: binary  *)
(* floating-point rounding is not part of the model.                       *)
(***************************************************************************)
EXTENDS Integers, Sequences, FiniteSets, TLC

VARIABLES
    files,      \* data.csv and ward_data.csv: whether each can be read, and its rows
    cache,      \* the st.cache_data entry of load_data
    pc,         \* the position of the current pass of main
    exc,        \* the exception that ended the pass, "" when none
    st_error,   \* whether the pass shows load_data's st.error message
    df_is_None, \* whether load_data returned (None, None) to this pass
    df, df2,    \* main's district and ward tables
    totals,     \* the city-wide section as rendered
    district,   \* the selected-district section as rendered
    top5,       \* the top-5 section as rendered
    df3, df4,   \* the joined table and the per-ward table
    ward,       \* the selected-ward section as rendered
    csv, csv_ward,  \* the data of the two download buttons
    first       \* history: the cache entry right after the first load, and
                \* what the first pass had produced when it ended

vars == <<files, cache, pc, exc, st_error, df_is_None, df, df2, totals,
          district, top5, df3, df4, ward, csv, csv_ward, first>>

----------------------------------------------------------------------------
(* Text helpers *)

Digits == {"0", "1", "2", "3", "4", "5", "6", "7", "8", "9"}

\* A missing value (NaN) of a text column.
NULL == <<>>

\* A missing value (NaN) of the numeric ward_id column.
NaN == -1

\* s[k:], Python slicing from 0-based position k.
StrFrom(s, k) == IF Len(s) <= k THEN <<>> ELSE SubSeq(s, k + 1, Len(s))

\* s[-4:], the trailing four characters (the whole string when shorter).
Last4(s) == IF Len(s) <= 4 THEN s ELSE SubSeq(s, Len(s) - 3, Len(s))

\* astype(str) of a date cell: a missing value renders as "nan".
AsStr(x) == IF x = NULL THEN <<"n", "a", "n">> ELSE x

RECURSIVE StripZeros(_)
StripZeros(ds) ==
    IF ds # <<>> /\ Head(ds) = "0" THEN StripZeros(Tail(ds)) ELSE ds

\* int(s) succeeds: here, s is a non-empty run of decimal digits.
IsInt(s) == s # <<>> /\ \A i \in 1..Len(s) : s[i] \in Digits

\* str(int(s)) for a digit string s: no leading zeros, "0" for zero.
IntStr(s) == IF StripZeros(s) = <<>> THEN <<"0">> ELSE StripZeros(s)

DigitVal(c) ==
    CASE c = "0" -> 0 [] c = "1" -> 1 [] c = "2" -> 2 [] c = "3" -> 3
      [] c = "4" -> 4 [] c = "5" -> 5 [] c = "6" -> 6 [] c = "7" -> 7
      [] c = "8" -> 8 [] c = "9" -> 9

\* a <= b for digit strings of equal length.
RECURSIVE LexLeq(_, _)
LexLeq(a, b) ==
    IF a = <<>> THEN TRUE
    ELSE IF DigitVal(Head(a)) # DigitVal(Head(b))
         THEN DigitVal(Head(a)) < DigitVal(Head(b))
         ELSE LexLeq(Tail(a), Tail(b))

\* 2^63 - 1, the largest value of the int64 that astype(int) produces.
Int64Max == <<"9", "2", "2", "3", "3", "7", "2", "0", "3", "6", "8", "5",
              "4", "7", "7", "5", "8", "0", "7">>

FitsInt64(s) ==
    LET c == IntStr(s)
    IN  \/ Len(c) < Len(Int64Max)
        \/ Len(c) = Len(Int64Max) /\ LexLeq(c, Int64Max)

\* A variant of zfill that keeps exactly width characters, the trailing ones.
RECURSIVE zfill_fixed_width(_, _)
zfill_fixed_width(s, width) ==
    IF Len(s) > width THEN SubSeq(s, Len(s) - width + 1, Len(s))
    ELSE IF Len(s) = width THEN s
    ELSE zfill_fixed_width(<<"0">> \o s, width)

\* str.zfill(width): pads on the left, never truncates.
RECURSIVE zfill(_, _)
zfill(s, width) == IF Len(s) >= width THEN s ELSE zfill(<<"0">> \o s, width)

----------------------------------------------------------------------------
(* Numbers and formatting *)

\* The shares of lines 68-69, as numerators over ShareDen (in thousandths).
cps == 3829
ShareDen == 6995

\* A variant of chi that gives the city everything that is not the CPS share.
chi_remainder == ShareDen - cps

chi == 1741

Abs(n) == IF n < 0 THEN 0 - n ELSE n

\* f"${x:,.0f}" of x = n / d: the sign of x and |x| rounded half to even.
\* A small negative x renders as "$-0".
Currency(n, d) ==
    LET q == Abs(n) \div d
        r == Abs(n) % d
    IN  [neg |-> n < 0,
         dollars |-> IF 2 * r > d THEN q + 1
                     ELSE IF 2 * r = d THEN q + (q % 2)
                     ELSE q]

\* f"{x:.0%}" of a coverage held in hundredths.
Percent(x) == [percent |-> x]

RECURSIVE SumSeq(_)
SumSeq(s) == IF s = <<>> THEN 0 ELSE Head(s) + SumSeq(Tail(s))

MinOf(S) == CHOOSE x \in S : \A y \in S : x <= y
MaxOf(S) == CHOOSE x \in S : \A y \in S : x >= y

RECURSIVE SortedSeq(_)
SortedSeq(S) ==
    IF S = {} THEN <<>> ELSE <<MinOf(S)>> \o SortedSeq(S \ {MinOf(S)})

RECURSIVE Flatten(_)
Flatten(ss) == IF ss = <<>> THEN <<>> ELSE Head(ss) \o Flatten(Tail(ss))

----------------------------------------------------------------------------
(* Tables: a table is a sequence of rows, a row a record of its columns    *)
(* plus "index", its DataFrame index label.                                *)

\* The five surplus-method columns of data.csv, in the order of the tables.
method_cols == <<"unallocated_funds_2025", "surplus_2025",
                 "full_surplus_avg_method_25", "full_surplus_poly_method_25",
                 "full_surplus_weighted_method_25">>

rev_cols == <<"unallocated_funds_rev_2025", "surplus_rev_2025",
              "full_surplus_avg_method_rev_25",
              "full_surplus_poly_method_rev_25",
              "full_surplus_weighted_method_rev_25">>

method_labels == <<"Unallocated funds", "City surplus method", "CTU method 1",
                   "CTU method 2", "CTU method 3">>

\* numeric_cols of line 202, the display names of method_cols.
numeric_cols == <<"Unallocated Funds", "City Surplus Method", "CTU Method 1",
                  "CTU Method 2", "CTU Method 3">>

Range(f) == {f[i] : i \in DOMAIN f}

\* DataFrame.rename(columns=m): m maps some column names to new ones.
Rename(r, m) ==
    LET new(k) == IF k \in DOMAIN m THEN m[k] ELSE k
    IN  [c \in {new(k) : k \in DOMAIN r} |->
            r[CHOOSE k \in DOMAIN r : new(k) = c]]

\* table[cols]: the listed columns (the index label stays with the row).
Columns(r, cols) == [c \in cols \cup {"index"} |-> r[c]]

\* to_csv(index=False): the columns without the index label.
NoIndex(r) == [c \in DOMAIN r \ {"index"} |-> r[c]]

\* table[col] = table[col].apply(lambda x: f"${x:,.0f}") for the columns
\* cols of a row whose amounts are held over den.
ApplyCurrency(r, cols, den) ==
    [c \in DOMAIN r |-> IF c \in cols THEN Currency(r[c], den) ELSE r[c]]

\* Adds (or overwrites) the columns of the record more.
With(r, more) ==
    [c \in DOMAIN r \cup DOMAIN more |-> IF c \in DOMAIN more THEN more[c] ELSE r[c]]

\* pd.read_csv: the rows of the file, labelled 0, 1, 2, ...
read_csv(rows) == [i \in 1..Len(rows) |-> With(rows[i], [index |-> i - 1])]

----------------------------------------------------------------------------
(* load_data, lines 9-20 *)

ExcludedYear == <<"2", "0", "2", "4">>

\* A variant of keep_row that tests the leading four characters, str[:4].
keep_row_leading(r) ==
    LET d == AsStr(r.expiration_date)
    IN  (IF Len(d) <= 4 THEN d ELSE SubSeq(d, 1, 4)) # ExcludedYear

\* The row test of line 16.
keep_row(r) == Last4(AsStr(r.expiration_date)) # ExcludedYear

\* Line 16: df = df[df['expiration_date'].astype(str).str[-4:] != '2024'].
filter_2024(t) == SelectSeq(t, keep_row)

\* What the body of load_data does with the two files: it returns the
\* filtered district table and the ward table, or shows st.error and returns
\* (None, None) on FileNotFoundError; any other exception of read_csv leaves
\* the function.  data.csv is read first.
load_data_body(f) ==
    IF f.data = "missing" \/ (f.data = "ok" /\ f.ward = "missing")
    THEN [raised |-> "", none |-> TRUE, st_error |-> TRUE,
          df |-> <<>>, df2 |-> <<>>]
    ELSE IF f.data = "unreadable" \/ f.ward = "unreadable"
    THEN [raised |-> "PermissionError", none |-> FALSE, st_error |-> FALSE,
          df |-> <<>>, df2 |-> <<>>]
    ELSE [raised |-> "", none |-> FALSE, st_error |-> FALSE,
          df |-> filter_2024(read_csv(f.df)), df2 |-> read_csv(f.df2)]

----------------------------------------------------------------------------
(* The sections of main *)

\* A variant of apportion that rounds each product down to whole dollars.
apportion_whole_dollars(amount, share) ==
    ((amount * share) \div ShareDen) * ShareDen

\* amount * share (lines 71-80, 129-138, 210-213, 259-263), over ShareDen.
apportion(amount, share) == amount * share

\* df[col].sum()
ColumnSum(t, col) == SumSeq([i \in 1..Len(t) |-> t[i][col]])

\* The four-column table of lines 82-87 and 140-145 for five amounts, with
\* the minimum and maximum of its CPS column (lines 89-96, 147-154).
method_table(a) ==
    LET table == [i \in 1..Len(method_cols) |->
                    ("Surplus Method" :> method_labels[i])
                    @@ ("Surplus Amount" :> a[i])
                    @@ ("CPS Surplus Revenue" :> apportion(a[i], cps))
                    @@ ("City of Chicago Surplus Revenue" :> apportion(a[i], chi))]
        cps_col == {table[i]["CPS Surplus Revenue"] : i \in 1..Len(table)}
    IN  [table |-> table,
         min_value |-> MinOf(cps_col),
         max_value |-> MaxOf(cps_col),
         Minimum |-> Currency(MinOf(cps_col), ShareDen),
         Maximum |-> Currency(MaxOf(cps_col), ShareDen)]

\* A variant of city_totals whose CTU method 2 total sums the column of
\* CTU method 1.
city_totals_wrong_column(t) ==
    method_table([i \in 1..Len(method_cols) |->
                    ColumnSum(t, method_cols[IF i = 4 THEN 3 ELSE i])])

\* Lines 59-111: the column sums of df and their apportioned figures.
city_totals(t) ==
    method_table([i \in 1..Len(method_cols) |-> ColumnSum(t, method_cols[i])])

\* Lines 116-118: the options of the district selector.
tif_districts(t) == {t[i].tif_name_comptroller_report : i \in 1..Len(t)}

\* Lines 120-169: the first row of df with the selected name.
district_table(t, selected_district) ==
    LET filtered_df ==
            LET is_selected(r) == r.tif_name_comptroller_report = selected_district
            IN  SelectSeq(t, is_selected)
        row == filtered_df[1]
    IN  With(method_table([i \in 1..Len(method_cols) |-> row[method_cols[i]]]),
             [selected_district |-> selected_district])

\* N of line 177 and the column it ranks by.
top_n == 5
top_col == "full_surplus_poly_method_25"

RemoveAt(t, k) == SubSeq(t, 1, k - 1) \o SubSeq(t, k + 1, Len(t))

\* A variant of nlargest with keep='last': of rows of equal value the
\* later one comes first.
RECURSIVE nlargest_keep_last(_, _, _)
nlargest_keep_last(n, t, col) ==
    IF n = 0 \/ t = <<>> THEN <<>>
    ELSE LET best == MaxOf({t[i][col] : i \in 1..Len(t)})
             k == MaxOf({i \in 1..Len(t) : t[i][col] = best})
         IN  <<t[k]>> \o nlargest_keep_last(n - 1, RemoveAt(t, k), col)

\* DataFrame.nlargest(n, col), keep='first': the rows in descending order of
\* col, rows of equal value in their order in t, the first n of them.
RECURSIVE nlargest(_, _, _)
nlargest(n, t, col) ==
    IF n = 0 \/ t = <<>> THEN <<>>
    ELSE LET best == MaxOf({t[i][col] : i \in 1..Len(t)})
             k == MinOf({i \in 1..Len(t) : t[i][col] = best})
         IN  <<t[k]>> \o nlargest(n - 1, RemoveAt(t, k), col)

\* The renaming of lines 187-195 and 322-331.
display_names ==
    ("tif_name_comptroller_report" :> "TIF District")
    @@ ("tif_coverage" :> "TIF Coverage")
    @@ ("expiration_date" :> "Expiration Date")
    @@ ("unallocated_funds_2025" :> "Unallocated Funds")
    @@ ("surplus_2025" :> "City Surplus Method")
    @@ ("full_surplus_avg_method_25" :> "CTU Method 1")
    @@ ("full_surplus_poly_method_25" :> "CTU Method 2")
    @@ ("full_surplus_weighted_method_25" :> "CTU Method 3")

\* min(axis=1) and max(axis=1) over numeric_cols (lines 206-207, 334-335).
row_min(r) == MinOf({r[c] : c \in Range(numeric_cols)})
row_max(r) == MaxOf({r[c] : c \in Range(numeric_cols)})

range_cols == {"CPS Min Surplus Revenue", "CPS Max Surplus Revenue",
               "Chicago Min Surplus Revenue", "Chicago Max Surplus Revenue"}

\* Lines 210-213 and 338-341: the four apportioned bounds of a row.
with_range(r) ==
    With(r, ("CPS Min Surplus Revenue" :> apportion(row_min(r), cps))
            @@ ("CPS Max Surplus Revenue" :> apportion(row_max(r), cps))
            @@ ("Chicago Min Surplus Revenue" :> apportion(row_min(r), chi))
            @@ ("Chicago Max Surplus Revenue" :> apportion(row_max(r), chi)))

RevDollars(x) == Currency(x, ShareDen)

\* Lines 225-233 and 358-366: every amount as a currency string.
format_range_row(r) ==
    ApplyCurrency(ApplyCurrency(r, Range(numeric_cols), 1), range_cols, ShareDen)

\* A variant of range_section that reports the least and the greatest of
\* the per-method column sums.
range_section_of_sums(t) ==
    LET ranged == [row \in 1..Len(t) |-> with_range(t[row])]
        sums == {SumSeq([i \in 1..Len(t) |-> t[i][c]]) : c \in Range(numeric_cols)}
        min_value == apportion(MinOf(sums), cps)
        max_value == apportion(MaxOf(sums), cps)
    IN  [table |-> [row \in 1..Len(ranged) |-> format_range_row(ranged[row])],
         min_value |-> min_value,
         max_value |-> max_value,
         Minimum |-> RevDollars(min_value),
         Maximum |-> RevDollars(max_value)]

\* Lines 202-221 and 333-350 on a renamed table: the table with its bounds
\* columns, and the sums of the CPS bounds.
range_section(t) ==
    LET ranged == [row \in 1..Len(t) |-> with_range(t[row])]
        min_value == SumSeq([i \in 1..Len(ranged) |->
                                ranged[i]["CPS Min Surplus Revenue"]])
        max_value == SumSeq([i \in 1..Len(ranged) |->
                                ranged[i]["CPS Max Surplus Revenue"]])
    IN  [table |-> [row \in 1..Len(ranged) |-> format_range_row(ranged[row])],
         min_value |-> min_value,
         max_value |-> max_value,
         Minimum |-> RevDollars(min_value),
         Maximum |-> RevDollars(max_value)]

\* Lines 174-235.
top5_section(t) ==
    LET filter_cols == {"tif_name_comptroller_report", "expiration_date"}
                           \cup Range(method_cols)
        picked(r) == Rename(Columns(r, filter_cols), display_names)
        largest == nlargest(top_n, t, top_col)
    IN  range_section([row \in 1..Len(largest) |-> picked(largest[row])])

----------------------------------------------------------------------------
(* The ward section, lines 242-367 *)

\* Line 242: df2.dropna(subset=['tif_num']).
has_tif_num(r) == r.tif_num # NULL
dropna_tif_num(t) == SelectSeq(t, has_tif_num)

\* Lines 244-248 on one identifier: strip two characters, parse as an
\* integer, render, pad to three digits, prefix "T-".
normalize_tif_num(raw) == <<"T", "-">> \o zfill(IntStr(StrFrom(raw, 2)), 3)

\* The exception of line 244 on one identifier, "" when it converts.
convert_error(raw) ==
    IF ~IsInt(StrFrom(raw, 2)) THEN "ValueError"
    ELSE IF ~FitsInt64(StrFrom(raw, 2)) THEN "OverflowError"
    ELSE ""

\* The exception of lines 242-248 on the ward table t as read, "" when none.
\* A column whose every cell is missing is read as float64, and .str on it
\* raises AttributeError; otherwise the first identifier that does not
\* convert raises.
normalize_error(t) ==
    LET kept == dropna_tif_num(t)
        bad == {i \in 1..Len(kept) : convert_error(kept[i].tif_num) # ""}
    IN  IF t # <<>> /\ kept = <<>> THEN "AttributeError"
        ELSE IF bad # {} THEN convert_error(kept[MinOf(bad)].tif_num)
        ELSE ""

normalize_row(r) == With(r, [tif_num |-> normalize_tif_num(r.tif_num)])

\* Lines 242-248 when nothing raises.
normalize_df2(t) ==
    LET kept == dropna_tif_num(t)
    IN  [row \in 1..Len(kept) |-> normalize_row(kept[row])]

\* The ward columns of a district row that matches no ward row.
no_ward == [tif_num |-> NULL, ward_id |-> NaN, tif_coverage |-> NaN]

\* Line 250: df.merge(df2, left_on='tif_num_ctu', right_on='tif_num',
\* how='left'): one row per (district row, matching ward row) in the order of
\* df then df2, a district row without a match once, with missing ward
\* columns; the result is labelled anew.
merge_left(left, right) ==
    LET matches(d) ==
            LET is_match(w) == w.tif_num = d.tif_num_ctu
            IN  SelectSeq(right, is_match)
        joined(d) ==
            IF matches(d) = <<>> THEN <<With(d, no_ward)>>
            ELSE [j \in 1..Len(matches(d)) |-> With(d, NoIndex(matches(d)[j]))]
        rows == Flatten([i \in 1..Len(left) |-> joined(left[i])])
    IN  [i \in 1..Len(rows) |-> With(rows[i], [index |-> i - 1])]

\* Line 253: df3.dropna(subset=['ward_id']).
has_ward_id(r) == r.ward_id # NaN
dropna_ward_id(t) == SelectSeq(t, has_ward_id)

\* Lines 259-263: the CPS share of every method amount of a joined row.
with_rev(r) ==
    With(r, [c \in Range(rev_cols) |->
                apportion(r[method_cols[CHOOSE i \in 1..Len(rev_cols) :
                                            rev_cols[i] = c]], cps)])

\* Lines 250-263.
build_df3(left, right) ==
    LET rows == dropna_ward_id(merge_left(left, right))
    IN  [row \in 1..Len(rows) |-> with_rev(rows[row])]

\* A variant of groupby_ward that weights every amount by the coverage of
\* its ward row (held in hundredths).
groupby_ward_weighted(t) ==
    LET ids == SortedSeq({t[i].ward_id : i \in 1..Len(t)})
        group(w) ==
            LET in_ward(r) == r.ward_id = w
            IN  SelectSeq(t, in_ward)
        weighted(g, c) ==
            SumSeq([i \in 1..Len(g) |-> (g[i][c] * g[i].tif_coverage) \div 100])
        sums(w) == [c \in Range(method_cols) \cup Range(rev_cols) |->
                        weighted(group(w), c)]
    IN  [i \in 1..Len(ids) |->
            With(sums(ids[i]), [index |-> i - 1, ward_id |-> ids[i]])]

\* A variant of groupby_ward that counts a district once per ward, however
\* many ward rows join it to the ward.
groupby_ward_distinct(t) ==
    LET ids == SortedSeq({t[i].ward_id : i \in 1..Len(t)})
        group(w) ==
            LET first_of_district(i) ==
                    /\ t[i].ward_id = w
                    /\ \A j \in 1..(i - 1) :
                          ~(t[j].ward_id = w /\ t[j].tif_num_ctu = t[i].tif_num_ctu)
            IN  [c \in Range(method_cols) \cup Range(rev_cols) |->
                    SumSeq([i \in 1..Len(t) |->
                            IF first_of_district(i) THEN t[i][c] ELSE 0])]
    IN  [i \in 1..Len(ids) |->
            With(group(ids[i]), [index |-> i - 1, ward_id |-> ids[i]])]

\* Lines 265-276: groupby('ward_id').agg(sum).reset_index(): one row per
\* ward_id of t, in ascending order, with the ten column sums.
groupby_ward(t) ==
    LET ids == SortedSeq({t[i].ward_id : i \in 1..Len(t)})
        group(w) ==
            LET in_ward(r) == r.ward_id = w
            IN  SelectSeq(t, in_ward)
        sums(w) == [c \in Range(method_cols) \cup Range(rev_cols) |->
                        ColumnSum(group(w), c)]
    IN  [i \in 1..Len(ids) |->
            With(sums(ids[i]), [index |-> i - 1, ward_id |-> ids[i]])]

\* The renaming of lines 291-303.
ward_export_names ==
    ("ward_id" :> "Ward ID")
    @@ ("unallocated_funds_2025" :> "Surplus Est: Unallocated Funds")
    @@ ("surplus_2025" :> "Surplus est: City Surplus Method")
    @@ ("full_surplus_avg_method_25" :> "Surplus Est: CTU Method 1")
    @@ ("full_surplus_poly_method_25" :> "Surplus Est: CTU Method 2")
    @@ ("full_surplus_weighted_method_25" :> "Surplus Est: CTU Method 3")
    @@ ("unallocated_funds_rev_2025" :> "CPS Revenue Est: Unallocated Funds")
    @@ ("surplus_rev_2025" :> "CPS Revenue Est: City Surplus Method")
    @@ ("full_surplus_avg_method_rev_25" :> "CPS Revenue Est: CTU Method 1")
    @@ ("full_surplus_poly_method_rev_25" :> "CPS Revenue Est: CTU Method 2")
    @@ ("full_surplus_weighted_method_rev_25" :> "CPS Revenue Est: CTU Method 3")

\* Lines 279-303: df4 as currency strings under its export names.
format_df4(t) ==
    LET formatted(r) ==
            ApplyCurrency(ApplyCurrency(r, Range(method_cols), 1),
                          Range(rev_cols), ShareDen)
        renamed(r) == Rename(formatted(r), ward_export_names)
    IN  [row \in 1..Len(t) |-> renamed(t[row])]

\* Line 305: the options of the ward selector.
wards(t) == {t[i].ward_id : i \in 1..Len(t)}

\* Lines 312-367 for the selected ward (NaN when the selector is empty and
\* returns None: no row matches it).
ward_section(t, selected_wards) ==
    LET filter_cols == {"tif_name_comptroller_report", "tif_coverage",
                        "expiration_date"} \cup Range(method_cols)
        in_ward(r) == r.ward_id = selected_wards
        picked(r) == Rename(Columns(r, filter_cols), display_names)
        filtered_df == SelectSeq(t, in_ward)
        section == range_section([row \in 1..Len(filtered_df) |->
                                    picked(filtered_df[row])])
        shown(r) == With(r, "TIF Coverage" :> Percent(r["TIF Coverage"]))
    IN  [wards |-> wards(t),
         selected_wards |-> selected_wards,
         table |-> [row \in 1..Len(section.table) |-> shown(section.table[row])],
         min_value |-> section.min_value,
         max_value |-> section.max_value,
         Minimum |-> section.Minimum,
         Maximum |-> section.Maximum]

----------------------------------------------------------------------------
(* The export, lines 370-410 *)

\* The renaming of lines 379-389.
export_names ==
    ("tif_name_comptroller_report" :> "TIF District")
    @@ ("tif_num_ctu" :> "TIF Number")
    @@ ("designation_date" :> "Designation Date")
    @@ ("expiration_date" :> "Expiration Date")
    @@ ("unallocated_funds_2025" :> "Unallocated Funds")
    @@ ("surplus_2025" :> "City Surplus Method")
    @@ ("full_surplus_avg_method_25" :> "CTU Method 1")
    @@ ("full_surplus_poly_method_25" :> "CTU Method 2")
    @@ ("full_surplus_weighted_method_25" :> "CTU Method 3")

\* Lines 372-389: df in place, its amounts as currency strings, renamed.
format_df(t) ==
    LET renamed(r) == Rename(ApplyCurrency(r, Range(method_cols), 1), export_names)
    IN  [row \in 1..Len(t) |-> renamed(t[row])]

\* DataFrame.to_csv(index=False).
to_csv(t) == [row \in 1..Len(t) |-> NoIndex(t[row])]

----------------------------------------------------------------------------
(* The input files the model is checked on *)

MaxDistricts == 2   \* rows of data.csv in the pipeline inputs
MaxWardRows == 2    \* rows of ward_data.csv in the pipeline inputs
MaxTopRows == 6     \* rows of data.csv in the ranking inputs
MaxPoly == 2        \* largest ranked amount in the ranking inputs
MaxKeyRows == 2     \* rows of ward_data.csv in the identifier inputs

d2030 == <<"1", "2", "/", "3", "1", "/", "2", "0", "3", "0">>
d2024 == <<"1", "2", "/", "3", "1", "/", "2", "0", "2", "4">>
iso2024 == <<"2", "0", "2", "4", "-", "1", "2", "-", "3", "1">>

District(name, num, date, a) ==
    [tif_name_comptroller_report |-> name, tif_num_ctu |-> num,
     expiration_date |-> date,
     unallocated_funds_2025 |-> a[1], surplus_2025 |-> a[2],
     full_surplus_avg_method_25 |-> a[3], full_surplus_poly_method_25 |-> a[4],
     full_surplus_weighted_method_25 |-> a[5]]

WardRow(raw, w, coverage) ==
    [tif_num |-> raw, ward_id |-> w, tif_coverage |-> coverage]

\* The first two rows are the end-to-end scenario of the specification, with
\* its amounts in thousands of dollars; the third and fourth carry the
\* (10, 20, 15) and (5, 50, 8) of its row-range example.
DistrictRows ==
    << District("A", <<"T", "-", "0", "0", "1">>, d2030, <<1000, 500, 400, 450, 420>>),
       District("B", <<"T", "-", "0", "0", "2">>, d2024, <<7, 7, 7, 7, 7>>),
       District("C", <<"T", "-", "0", "0", "7">>, d2030, <<10, 20, 15, 15, 15>>),
       District("D", <<"T", "-", "1", "2", "3", "4">>, iso2024, <<5, 50, 8, 8, 8>>),
       District("E", <<"T", "-", "1", "0", "0">>, NULL, <<100, 0, 0 - 3, 100, 0>>) >>

WardRows ==
    << WardRow(<<"T", "F", "0", "0", "1">>, 1, 10),
       WardRow(<<"T", "F", "1", "0", "0">>, 1, 10),
       WardRow(<<"T", "F", "1", "0", "0">>, 2, 90),
       WardRow(<<"T", "F", "0", "0", "7">>, 1, 100),
       WardRow(<<"T", "F", "0", "0", "7">>, 1, 100),
       WardRow(<<"T", "F", "1", "2", "3", "4">>, 2, 50),
       WardRow(NULL, 1, 50),
       WardRow(<<"T", "F", "X", "7">>, 2, 50),
       WardRow(<<"T", "F", "0", "0", "9", "9">>, 3, 50),
       WardRow(<<"T", "F", "0", "0", "7">>, NaN, 50) >>

\* The tables made of at most n rows of a list, in the order of the list.
SubTables(list, n) ==
    LET picks == {S \in SUBSET (1..Len(list)) : Cardinality(S) <= n}
        table(S) == [k \in 1..Cardinality(S) |-> list[SortedSeq(S)[k]]]
    IN  {table(S) : S \in picks}

\* The tables of at most n rows over a set of rows, in any order.
RECURSIVE Tables(_, _)
Tables(R, n) ==
    IF n = 0 THEN {<<>>}
    ELSE Tables(R, n - 1)
         \cup {Append(t, r) : t \in {u \in Tables(R, n - 1) : Len(u) = n - 1}, r \in R}

\* Ranking inputs: districts of one name whose ranked amount runs over
\* 1..MaxPoly, the unallocated amount running the other way.
RankedRows ==
    {District("Z", <<"T", "-", "0", "0", "7">>, d2030,
              <<MaxPoly + 1 - v, 0, v, v, 0>>) : v \in 1..MaxPoly}

\* Identifier inputs: raw ward-table identifiers, well-formed and not.
KeyIds ==
    << <<"T", "F", "0", "0", "7">>,
      <<"T", "F", "1", "2", "3", "4">>,
      <<"T", "F", "7">>,
      <<"T", "F", "0", "0", "0", "1", "2", "3", "4">>,
      <<"T", "F", "0", "0", "0">>,
      <<"T", "F", "1", "2">>,
      <<"T", "F">>,
      <<"T">>,
      <<"T", "F", "X", "7">>,
      <<"T", "F", "7", "X">>,
      NULL,
      <<"T", "F">> \o Int64Max,
      <<"T", "F", "0">> \o Int64Max,
      <<"T", "F", "9", "2", "2", "3", "3", "7", "2", "0", "3", "6", "8", "5",
        "4", "7", "7", "5", "8", "0", "8">> >>

KeyRows == [k \in 1..Len(KeyIds) |-> WardRow(KeyIds[k], 1, 50)]

Inputs ==
    {[df |-> t, df2 |-> w] :
        t \in SubTables(DistrictRows, MaxDistricts),
        w \in SubTables(WardRows, MaxWardRows)}
    \cup {[df |-> t, df2 |-> <<WardRows[4]>>] : t \in Tables(RankedRows, MaxTopRows)}
    \cup {[df |-> <<DistrictRows[3], DistrictRows[4]>>, df2 |-> w] :
            w \in SubTables(KeyRows, MaxKeyRows)}

FileStatus == {"ok", "missing", "unreadable"}

----------------------------------------------------------------------------
(* The state machine *)

no_section == [table |-> <<>>]
no_entry == [full |-> FALSE]
no_pass == [seen |-> FALSE]

\* A variant of cache_data_entry for st.cache_resource, which hands out the
\* stored object itself: what main does to its df in place is done to the
\* entry.
cache_resource_entry(entry, mutated_df) ==
    [entry EXCEPT !.value.df = mutated_df]

\* Line 9, st.cache_data: the entry is stored serialized and every call gets
\* its own copy, so the entry after main has changed its df in place is the
\* entry as it was.
cache_data_entry(entry, mutated_df) == entry

\* What a pass has produced: how it ended, its selections, and everything
\* it rendered and offered for download.
PassOutputs ==
    [seen |-> TRUE, pc |-> pc, exc |-> exc, st_error |-> st_error,
     totals |-> totals, district |-> district, top5 |-> top5, ward |-> ward,
     csv |-> csv, csv_ward |-> csv_ward]

\* The variables of a pass before load_data returns.
PassStart ==
    /\ exc = ""
    /\ st_error = FALSE
    /\ df_is_None = FALSE
    /\ df = <<>>
    /\ df2 = <<>>
    /\ totals = no_section
    /\ district = no_section
    /\ top5 = no_section
    /\ df3 = <<>>
    /\ df4 = <<>>
    /\ ward = no_section
    /\ csv = <<>>
    /\ csv_ward = <<>>

Init ==
    /\ \/ \E i \in Inputs :
            files = [data |-> "ok", ward |-> "ok", df |-> i.df, df2 |-> i.df2]
       \/ \E a, b \in FileStatus :
            /\ <<a, b>> # <<"ok", "ok">>
            /\ files = [data |-> a, ward |-> b, df |-> <<>>, df2 |-> <<>>]
    /\ cache = no_entry
    /\ first = [load |-> no_entry, pass |-> no_pass]
    /\ pc = "start"
    /\ PassStart

\* An exception leaves main: the pass ends with what was rendered so far.
Raise(e) == pc' = "crashed" /\ exc' = e

\* Line 26, load_data under st.cache_data: the body runs when the cache has
\* no entry, and its return value is stored; a later call gets a copy of the
\* entry (and the st.error it recorded is replayed).  An exception leaves no
\* entry.
LoadData ==
    /\ pc = "start"
    /\ LET ret == IF cache.full THEN cache.value ELSE load_data_body(files)
       IN  IF ret.raised # ""
           THEN /\ Raise(ret.raised)
                /\ UNCHANGED <<cache, first, st_error, df_is_None, df, df2>>
           ELSE /\ cache' = [full |-> TRUE, value |-> ret]
                /\ first' = IF cache.full THEN first
                             ELSE [first EXCEPT !.load = cache']
                /\ st_error' = ret.st_error
                /\ df_is_None' = ret.none
                /\ df' = ret.df
                /\ df2' = ret.df2
                /\ pc' = "loaded"
                /\ exc' = exc
    /\ UNCHANGED <<files, totals, district, top5, df3, df4, ward, csv, csv_ward>>

\* Lines 28-29: main returns when load_data gave None.
MainReturns ==
    /\ pc = "loaded"
    /\ df_is_None
    /\ pc' = "halted"
    /\ UNCHANGED <<files, cache, first, exc, st_error, df_is_None, df, df2, totals,
                   district, top5, df3, df4, ward, csv, csv_ward>>

\* Lines 33-111.
CityTotals ==
    /\ pc = "loaded"
    /\ ~df_is_None
    /\ totals' = city_totals(df)
    /\ pc' = "totals"
    /\ UNCHANGED <<files, cache, first, exc, st_error, df_is_None, df, df2,
                   district, top5, df3, df4, ward, csv, csv_ward>>

\* Lines 112-169: the user's choice among the district names.  With no
\* district the selector returns None, no row matches, and values[0] of
\* line 123 raises IndexError.
DistrictSection ==
    /\ pc = "totals"
    /\ IF df = <<>>
       THEN Raise("IndexError") /\ district' = district
       ELSE /\ \E selected_district \in tif_districts(df) :
                  district' = district_table(df, selected_district)
            /\ pc' = "district"
            /\ exc' = exc
    /\ UNCHANGED <<files, cache, first, st_error, df_is_None, df, df2, totals,
                   top5, df3, df4, ward, csv, csv_ward>>

\* Lines 171-235.
Top5Section ==
    /\ pc = "district"
    /\ top5' = top5_section(df)
    /\ pc' = "top5"
    /\ UNCHANGED <<files, cache, first, exc, st_error, df_is_None, df, df2, totals,
                   district, df3, df4, ward, csv, csv_ward>>

\* Lines 237-276: normalize the ward table, join, apportion, group by ward.
WardAggregation ==
    /\ pc = "top5"
    /\ IF normalize_error(df2) # ""
       THEN Raise(normalize_error(df2)) /\ UNCHANGED <<df2, df3, df4>>
       ELSE /\ df2' = normalize_df2(df2)
            /\ df3' = build_df3(df, df2')
            /\ df4' = groupby_ward(df3')
            /\ pc' = "ward_agg"
            /\ exc' = exc
    /\ UNCHANGED <<files, cache, first, st_error, df_is_None, df, totals, district,
                   top5, ward, csv, csv_ward>>

\* Lines 278-367: df4 formatted for export, and the user's choice among the
\* wards (None, matching no row, when there is none).
WardSection ==
    /\ pc = "ward_agg"
    /\ df4' = format_df4(df4)
    /\ \E selected_wards \in (IF wards(df3) = {} THEN {NaN} ELSE wards(df3)) :
            ward' = ward_section(df3, selected_wards)
    /\ pc' = "ward"
    /\ UNCHANGED <<files, cache, first, exc, st_error, df_is_None, df, df2, totals,
                   district, top5, df3, csv, csv_ward>>

\* Lines 368-410: df formatted and renamed in place, and the two downloads.
DownloadData ==
    /\ pc = "ward"
    /\ df' = format_df(df)
    /\ csv' = to_csv(df')
    /\ csv_ward' = to_csv(df4)
    /\ pc' = "done"
    /\ cache' = cache_data_entry(cache, df')
    /\ UNCHANGED <<files, first, exc, st_error, df_is_None, df2, totals,
                   district, top5, df3, df4, ward>>

\* A user interaction reruns main from the top; only the cache survives.
Rerun ==
    /\ pc \in {"done", "halted", "crashed"}
    /\ pc' = "start"
    /\ exc' = ""
    /\ st_error' = FALSE
    /\ df_is_None' = FALSE
    /\ df' = <<>>
    /\ df2' = <<>>
    /\ totals' = no_section
    /\ district' = no_section
    /\ top5' = no_section
    /\ df3' = <<>>
    /\ df4' = <<>>
    /\ ward' = no_section
    /\ csv' = <<>>
    /\ csv_ward' = <<>>
    /\ first' = IF first.pass.seen THEN first
                 ELSE [first EXCEPT !.pass = PassOutputs]
    /\ UNCHANGED <<files, cache>>

Next ==
    \/ LoadData
    \/ MainReturns
    \/ CityTotals
    \/ DistrictSection
    \/ Top5Section
    \/ WardAggregation
    \/ WardSection
    \/ DownloadData
    \/ Rerun

Spec == Init /\ [][Next]_vars

----------------------------------------------------------------------------
(* Properties *)

\* What a section or table shows once it is rendered.
Rendered(section) == section # no_section

\* Whether df still holds its numeric columns under their names of data.csv
\* (until lines 372-389 format and rename it).
DfIsNumeric == pc # "done"

\* The text s ends with the four characters 2024.
EndsWith2024(s) ==
    Len(s) >= 4 /\ SubSeq(s, Len(s) - 3, Len(s)) = <<"2", "0", "2", "4">>

ExpirationOf(r) ==
    IF "expiration_date" \in DOMAIN r THEN r.expiration_date
    ELSE r["Expiration Date"]

No2024(t) == \A i \in 1..Len(t) : ~EndsWith2024(ExpirationOf(t[i]))

\* C1: no row of the district table that load_data returns, nor of any table
\* derived from it later in the pass (the cached table, the top-5 table, the
\* joined table, the ward table, the exported table and its CSV), has an
\* expiration date ending in "2024".
C1_NoRowExpires2024 ==
    /\ No2024(df)
    /\ cache.full => No2024(cache.value.df)
    /\ No2024(top5.table)
    /\ No2024(df3)
    /\ No2024(ward.table)
    /\ No2024(csv)

\* C1 witness: data.csv held a row expiring in 2024 and a row that does
\* not, and the pass ran to the export.
C1_Witness ==
    /\ pc = "done"
    /\ \E i \in 1..Len(files.df) : EndsWith2024(files.df[i].expiration_date)
    /\ csv # <<>>
    /\ df3 # <<>>

MethodRows ==
    (IF Rendered(totals) THEN Range(totals.table) ELSE {})
    \cup (IF Rendered(district) THEN Range(district.table) ELSE {})

\* The sum of the two shares of a row's amount, and the amount, over ShareDen.
BothShares(r) == r["CPS Surplus Revenue"] + r["City of Chicago Surplus Revenue"]
Whole(r) == r["Surplus Amount"] * ShareDen

\* C3 as stated: in every row of the city-wide and district tables the CPS
\* and City figures together are strictly less than the amount.
C3_SharesBelowAmount == \A r \in MethodRows : BothShares(r) < Whole(r)

\* C3 as amended: the two figures together are strictly less than a
\* positive amount, equal to an amount of zero, and strictly greater than a
\* negative amount.
C3_SharesBelowPositiveAmount ==
    \A r \in MethodRows :
        /\ r["Surplus Amount"] > 0 => BothShares(r) < Whole(r)
        /\ r["Surplus Amount"] = 0 => BothShares(r) = Whole(r)
        /\ r["Surplus Amount"] < 0 => BothShares(r) > Whole(r)

\* C3 witness: a district table with a positive, a zero and a negative amount.
C3_Witness ==
    /\ Rendered(district)
    /\ \E r \in Range(district.table) : r["Surplus Amount"] > 0
    /\ \E r \in Range(district.table) : r["Surplus Amount"] = 0
    /\ \E r \in Range(district.table) : r["Surplus Amount"] < 0

\* The normalized ward rows and the filtered numeric district rows are both
\* in place (after line 276, before the ward section).
Aggregated == pc = "ward_agg"

\* The full amount of column col that reaches ward w: each district row of
\* df once per ward row of w whose normalized number is the district's.
FullAmount(w, col) ==
    SumSeq([j \in 1..Len(df2) |->
        IF df2[j].ward_id = w
        THEN SumSeq([i \in 1..Len(df) |->
                IF df[i].tif_num_ctu = df2[j].tif_num THEN df[i][col] ELSE 0])
        ELSE 0])

\* The wards with a ward row whose number is that of some district row.
MatchedWards ==
    {df2[j].ward_id : j \in {k \in 1..Len(df2) :
        /\ df2[k].ward_id # NaN
        /\ \E i \in 1..Len(df) : df[i].tif_num_ctu = df2[k].tif_num}}

\* C4: the ward table has one row per ward that has a ward row matching a
\* district, and the ward's total of every method is the sum of the full
\* amounts of the matching districts, once per matching ward row, whatever
\* the coverage.
C4_WardTotalsUnweighted ==
    Aggregated =>
        /\ {df4[k].ward_id : k \in 1..Len(df4)} = MatchedWards
        /\ Len(df4) = Cardinality(MatchedWards)
        /\ \A k \in 1..Len(df4) : \A m \in 1..Len(method_cols) :
              df4[k][method_cols[m]] = FullAmount(df4[k].ward_id, method_cols[m])

\* C4 witness: the district of $100 lies in ward 1 at 10% and in ward 2 at
\* 90%, and each of the two wards totals the full $100; another district has
\* no ward row.
C4_Witness ==
    /\ Aggregated
    /\ Len(df) = 2
    /\ df[2].unallocated_funds_2025 = 100
    /\ Len(df2) = 2
    /\ df2[1].tif_num = df[2].tif_num_ctu /\ df2[1].tif_coverage = 10
    /\ df2[2].tif_num = df[2].tif_num_ctu /\ df2[2].tif_coverage = 90
    /\ Len(df4) = 2
    /\ df4[1].unallocated_funds_2025 = 100
    /\ df4[2].unallocated_funds_2025 = 100

\* The least and the greatest of the five method amounts of a numeric row.
LeastMethod(r) == MinOf({r[c] : c \in Range(method_cols)})
GreatestMethod(r) == MaxOf({r[c] : c \in Range(method_cols)})

\* The row of df with a given label.
DfRow(label) == CHOOSE r \in Range(df) : r.index = label

\* The rows of df that the top-5 table shows, in its order.
Top5Rows == [k \in 1..Len(top5.table) |-> DfRow(top5.table[k].index)]

\* The rows of df3 that the ward table shows.
WardRowsShown == SelectSeq(df3, LAMBDA r : r.ward_id = ward.selected_wards)

\* C5: the CPS minimum (maximum) reported above the top-5 table and above
\* the ward table is the CPS share of the sum, over the rows of the table,
\* of each row's least (greatest) method amount; for rows (10, 20, 15) and
\* (5, 50, 8) that is the share of 15 and of 70.
C5_RangeIsSumOfRowBounds ==
    /\ (Rendered(top5) /\ DfIsNumeric) =>
          /\ top5.min_value =
                cps * SumSeq([k \in 1..Len(Top5Rows) |-> LeastMethod(Top5Rows[k])])
          /\ top5.max_value =
                cps * SumSeq([k \in 1..Len(Top5Rows) |-> GreatestMethod(Top5Rows[k])])
          /\ files.df = <<DistrictRows[3], DistrictRows[4]>> =>
                top5.min_value = cps * 15 /\ top5.max_value = cps * 70
    /\ Rendered(ward) =>
          /\ ward.min_value =
                cps * SumSeq([k \in 1..Len(WardRowsShown) |->
                                LeastMethod(WardRowsShown[k])])
          /\ ward.max_value =
                cps * SumSeq([k \in 1..Len(WardRowsShown) |->
                                GreatestMethod(WardRowsShown[k])])

\* C5 witness: the top-5 table showed the rows (10, 20, 15) and (5, 50, 8)
\* under a minimum of the share of 15 and a maximum of the share of 70, and
\* the ward table shows one of them.
C5_Witness ==
    /\ pc = "ward"
    /\ files.df = <<DistrictRows[3], DistrictRows[4]>>
    /\ top5.min_value = cps * 15
    /\ top5.max_value = cps * 70
    /\ Len(WardRowsShown) = 1
    /\ ward.min_value \in {cps * 10, cps * 5}

Min2(a, b) == IF a <= b THEN a ELSE b

\* C7: the top-5 table holds min(5, number of districts) distinct rows of
\* df, in descending order of the ranked amount; no row left out has a
\* greater ranked amount than a row shown; rows of equal amount are shown
\* in their order in df, and when some of them are left out these are the
\* later ones; and the section raises nothing, however few the districts.
C7_Top5Selection ==
    /\ (Rendered(top5) /\ DfIsNumeric) =>
          LET shown == [k \in 1..Len(top5.table) |-> top5.table[k].index]
              left_out == {df[i].index : i \in 1..Len(df)} \ Range(shown)
              amount(label) == DfRow(label).full_surplus_poly_method_25
          IN  /\ Len(shown) = Min2(5, Len(df))
              /\ Cardinality(Range(shown)) = Len(shown)
              /\ Range(shown) \subseteq {df[i].index : i \in 1..Len(df)}
              /\ \A k \in 1..Len(shown) : \A e \in left_out :
                    /\ amount(shown[k]) >= amount(e)
                    /\ amount(shown[k]) = amount(e) => shown[k] < e
              /\ \A k, l \in 1..Len(shown) :
                    k < l =>
                      /\ amount(shown[k]) >= amount(shown[l])
                      /\ amount(shown[k]) = amount(shown[l]) => shown[k] < shown[l]
    /\ (pc = "crashed" /\ Rendered(district)) => Rendered(top5)

\* C7 witness: six districts, the fifth and sixth of equal ranked amount,
\* a greater amount after a smaller one; five rows are shown.
C7_Witness ==
    /\ pc = "top5"
    /\ Len(df) = 6
    /\ df[5].full_surplus_poly_method_25 = df[6].full_surplus_poly_method_25
    /\ df[1].full_surplus_poly_method_25 < df[2].full_surplus_poly_method_25
    /\ df[4].full_surplus_poly_method_25 < df[5].full_surplus_poly_method_25
    /\ Len(top5.table) = 5

\* The sum of column col over the rows of data.csv that do not end in 2024.
SurvivorSum(col) ==
    SumSeq([i \in 1..Len(files.df) |->
        IF EndsWith2024(files.df[i].expiration_date) THEN 0 ELSE files.df[i][col]])

\* C8: each city-wide total is the sum of its own column over the rows of
\* data.csv that survive the filter, and its CPS figure is 3.829/6.995 of
\* it (3829 times it, over ShareDen = 6995); for T-001 (unallocated 1,000,000, here in thousands) and T-002
\* (expiring 12/31/2024) only T-001 remains, the unallocated total is
\* 1,000,000 and its CPS figure 1,000,000 * 3.829/6.995.
C8_CityWideTotals ==
    Rendered(totals) =>
        /\ \A m \in 1..Len(method_cols) :
              /\ totals.table[m]["Surplus Method"] = method_labels[m]
              /\ totals.table[m]["Surplus Amount"] = SurvivorSum(method_cols[m])
              /\ totals.table[m]["CPS Surplus Revenue"] =
                    SurvivorSum(method_cols[m]) * 3829
        /\ files.df = <<DistrictRows[1], DistrictRows[2]>> =>
              /\ Len(df) = 1
              /\ df[1].index = 0
              /\ totals.table[1]["Surplus Amount"] = 1000
              /\ totals.table[1]["CPS Surplus Revenue"] = 1000 * 3829

\* C8 witness: the scenario of T-001 and T-002, with its totals rendered.
C8_Witness ==
    /\ pc = "totals"
    /\ files.df = <<DistrictRows[1], DistrictRows[2]>>
    /\ totals.table[1]["Surplus Amount"] = 1000
    /\ totals.table[4]["Surplus Amount"] = 450

\* The ward table has been normalized (lines 242-248 raised nothing).
Normalized == pc \in {"ward_agg", "ward", "done"}

\* Lines 242-248 raised.
NormalizeRaised ==
    pc = "crashed" /\ exc \in {"ValueError", "OverflowError", "AttributeError"}

IsDigits(s) == \A i \in 1..Len(s) : s[i] \in Digits

\* The raw identifiers of ward_data.csv, by row label.
RawId(label) == files.df2[label + 1].tif_num
RawLabels == {i - 1 : i \in 1..Len(files.df2)}

\* Two prefix characters followed by one or more decimal digits.
WellFormed(raw) == Len(raw) >= 3 /\ IsDigits(SubSeq(raw, 3, Len(raw)))
DigitsOf(raw) == SubSeq(raw, 3, Len(raw))

Zeros(n) == [i \in 1..n |-> "0"]

\* Two digit strings that denote the same integer: one is the other behind
\* some zeros.
SameInt(x, y) ==
    \/ \E z \in 0..Len(x) : x = Zeros(z) \o y
    \/ \E z \in 0..Len(y) : y = Zeros(z) \o x

\* The digits denote an integer of at most 2^63 - 1.
WithinInt64(ds) ==
    \E z \in 0..Len(ds) :
        /\ SubSeq(ds, 1, z) = Zeros(z)
        /\ \/ Len(ds) - z < Len(Int64Max)
           \/ Len(ds) - z = Len(Int64Max) /\ LexLeq(SubSeq(ds, z + 1, Len(ds)), Int64Max)

\* Every well-formed identifier of ward_data.csv has its row in the
\* normalized table, under "T-" followed by its integer padded with zeros
\* to three digits at least and not truncated.
KeysAreCanonical ==
    Normalized =>
        /\ \A l \in RawLabels :
              WellFormed(RawId(l)) => \E j \in 1..Len(df2) : df2[j].index = l
        /\ \A j \in 1..Len(df2) :
              LET raw == RawId(df2[j].index)
                  key == df2[j].tif_num
                  padded == SubSeq(key, 3, Len(key))
              IN  WellFormed(raw) =>
                    /\ Len(key) >= 5 /\ key[1] = "T" /\ key[2] = "-"
                    /\ IsDigits(padded)
                    /\ Len(padded) > 3 => padded[1] # "0"
                    /\ SameInt(padded, DigitsOf(raw))
                    /\ raw = <<"T", "F", "0", "0", "7">>
                          => key = <<"T", "-", "0", "0", "7">>
                    /\ raw = <<"T", "F", "1", "2", "3", "4">>
                          => key = <<"T", "-", "1", "2", "3", "4">>

C9_BadKeysAreSkipped ==
    /\ ~NormalizeRaised
    /\ Normalized =>
          {df2[j].index : j \in 1..Len(df2)} =
              {l \in RawLabels : WellFormed(RawId(l))}

\* C10 as stated: when either file cannot be located or read, load_data
\* returns no tables with its message shown, the pass does not end in an
\* exception, and nothing else is computed or rendered.
C10_UnavailableDataHalts ==
    (files.data # "ok" \/ files.ward # "ok") =>
        /\ pc \in {"start", "loaded", "halted"}
        /\ pc # "start" => df_is_None /\ st_error
        /\ ~Rendered(totals) /\ ~Rendered(district) /\ ~Rendered(top5)
        /\ ~Rendered(ward)
        /\ df3 = <<>> /\ df4 = <<>> /\ csv = <<>> /\ csv_ward = <<>>

----------------------------------------------------------------------------
(* The cache across passes *)

\* A pass has ended: main returned, at line 29 or at its end, or raised.
PassEnded == pc \in {"done", "halted", "crashed"}

\* The selections made in a pass, of the selectors it got to.
SelectionOf(district_section, ward_section_shown) ==
    [district |-> IF Rendered(district_section)
                  THEN <<district_section.selected_district>> ELSE <<>>,
     ward |-> IF Rendered(ward_section_shown)
              THEN <<ward_section_shown.selected_wards>> ELSE <<>>]

SameSelectionAsFirstPass ==
    /\ first.pass.seen
    /\ SelectionOf(district, ward)
         = SelectionOf(first.pass.district, first.pass.ward)

----------------------------------------------------------------------------
(* The export against the screen *)

\* The number that a currency string of whole dollars shows.
AmountOf(c) == IF c.neg THEN 0 - c.dollars ELSE c.dollars

\* The five method amounts of a row of the district export, of the top-5
\* table and of the ward table, which name them alike.
ShownAmounts(r) == [m \in 1..Len(numeric_cols) |-> AmountOf(r[numeric_cols[m]])]

\* The five raw totals of a row of the ward export.
RawTotals(r) ==
    [m \in 1..Len(method_cols) |-> AmountOf(r[ward_export_names[method_cols[m]]])]

\* The filtered district table, as load_data returned it.
FilteredDistricts == cache.value.df

\* The position in the district table of the row that the district section
\* shows: the first of the selected name.
SelectedPosition ==
    CHOOSE i \in 1..Len(FilteredDistricts) :
        /\ FilteredDistricts[i].tif_name_comptroller_report
                = district.selected_district
        /\ \A j \in 1..(i - 1) :
              FilteredDistricts[j].tif_name_comptroller_report
                # district.selected_district

\* The export row of a row shown in a table of districts.
SameDistrictAndAmounts(exported, shown) ==
    /\ exported["TIF District"] = shown["TIF District"]
    /\ exported["Expiration Date"] = shown["Expiration Date"]
    /\ ShownAmounts(exported) = ShownAmounts(shown)

\* C12: when a pass has produced its downloads, the district export has the
\* rows of the filtered district table, as many and in the same order, and
\* the amounts of each are the amounts shown on screen for that district
\* (in the district section when it is the selected one, in the top-5 table
\* and in the ward table when it is listed there, and in the city-wide
\* totals as a summand); the ward export has one row per ward of the ward
\* selector, and the raw totals of the selected ward's row are the sums of
\* the amounts of the district rows shown in the ward table.
C12_ExportMatchesScreen ==
    pc = "done" =>
        /\ Len(csv) = Len(FilteredDistricts)
        /\ \A i \in 1..Len(csv) :
              /\ csv[i]["TIF District"]
                    = FilteredDistricts[i].tif_name_comptroller_report
              /\ csv[i]["TIF Number"] = FilteredDistricts[i].tif_num_ctu
        /\ \A m \in 1..Len(method_cols) :
              /\ SumSeq([i \in 1..Len(csv) |-> ShownAmounts(csv[i])[m]])
                    = totals.table[m]["Surplus Amount"]
              /\ ShownAmounts(csv[SelectedPosition])[m]
                    = district.table[m]["Surplus Amount"]
        /\ \A k \in 1..Len(top5.table) :
              \E i \in 1..Len(csv) :
                  /\ df[i].index = top5.table[k].index
                  /\ SameDistrictAndAmounts(csv[i], top5.table[k])
        /\ \A k \in 1..Len(ward.table) :
              \E i \in 1..Len(csv) :
                  SameDistrictAndAmounts(csv[i], ward.table[k])
        /\ Len(csv_ward) = Cardinality(ward.wards)
        /\ {csv_ward[k]["Ward ID"] : k \in 1..Len(csv_ward)} = ward.wards
        /\ \A k \in 1..Len(csv_ward) :
              csv_ward[k]["Ward ID"] = ward.selected_wards =>
                  \A m \in 1..Len(method_cols) :
                      RawTotals(csv_ward[k])[m]
                        = SumSeq([j \in 1..Len(ward.table) |->
                                    ShownAmounts(ward.table[j])[m]])

\* C12 witness: both downloads are produced, the district export has two
\* rows, and the ward table shows two district rows of the selected ward,
\* which is a row of the ward export.
C12_Witness ==
    /\ pc = "done"
    /\ Len(csv) = 2
    /\ Len(ward.table) = 2
    /\ \E k \in 1..Len(csv_ward) : csv_ward[k]["Ward ID"] = ward.selected_wards
====
